---- MODULE Spec2Model ----
(***************************************************************************)
(* Model of src/main.py: a command-line client that runs one of five       *)
(* commands (list, create, update, delete, realtime) against a remote      *)
(* "credentials" table.  Every `await` of the program is a point where the  *)
(* backend answers (success or an Exception) or, for the realtime          *)
(* listener, where an interrupt can be thrown into the coroutine.          *)
(***************************************************************************)
EXTENDS Integers, Sequences, FiniteSets, TLC

\* ------------------------------------------------------------------ bounds
MaxRows == 2

MaxInterrupts == 2

MaxTicks == 1

\* ------------------------------------------------------------ value spaces
Emails == {"a@b.com", "x"}

Passwords == {"p", "q"}

Commands == {"list", "create", "update", "delete", "realtime"}

CrudCommands == {"list", "create", "update", "delete"}

\* Optional values: Python None is the empty tuple, a value v is <<v>>.
None == <<>>

Some(v) == <<v>>

\* The three shapes os.environ.get can give: unset, empty, non-empty.
EnvValues == {None, Some(""), Some("set")}

\* Python truthiness of an Optional[str] / Optional[object]: `not v`
\* is true for None and for the empty string.
Truthy(v) == v # None /\ v[1] # ""

\* Dictionaries are functions whose domain is the set of keys present.
EmptyDict == [k \in {} |-> ""]

Get(d, k, default) == IF k \in DOMAIN d THEN d[k] ELSE default

Opt(k, present, v) == IF present THEN (k :> v) ELSE EmptyDict

Count(x, s) == Cardinality({i \in 1..Len(s) : s[i] = x})

VARIABLES
  table,      \* rows of the remote credentials table
  pc,         \* position of the process: "shell" when no process runs
  command,    \* args.command of the current / last process
  email,      \* args.email
  password,   \* args.password
  url,        \* os.environ.get("SUPABASE_URL"), fixed for a session
  key,        \* os.environ.get("SUPABASE_KEY"), fixed for a session
  supabase,   \* the client returned by initialize_supabase (None or Some)
  channel,    \* the channel returned by setup_realtime_subscription
  calls,      \* backend calls issued by the current / last process
  interrupts, \* positions at which an interrupt reached the process
  pending,    \* an exception waits to be re-raised after the finally block
  exit,       \* "none", "ok" (returned) or "exception" (propagated)
  ok,         \* the last backend request of the process succeeded
  response,   \* response.data printed by the process (None or Some)
  before,     \* the table as it was when the process started
  prev,       \* summary of the process that ran before this one
  ticks,      \* completed sleeps of the idle loop
  payload,    \* last payload delivered to the callback
  reported    \* what the callback printed for it

vars == <<table, pc, command, email, password, url, key, supabase, channel,
          calls, interrupts, pending, exit, ok, response, before, prev,
          ticks, payload, reported>>

\* ------------------------------------------------------- the remote table
Row == [email : Emails, password : Passwords]

Tables == UNION {[1..n -> Row] : n \in 0..MaxRows}

\* .select("*").execute(): every row, in table order.
fetch_credentials(tbl) == [i \in 1..Len(tbl) |-> tbl[i]]

\* Variant: the two fields are passed in the wrong order.
insert_credential_swapped(tbl, e, p) ==
  Append(tbl, [email |-> p, password |-> e])

\* .insert({"email": email, "password": password}).execute()
insert_credential(tbl, e, p) == Append(tbl, [email |-> e, password |-> p])

\* Variant: the .eq("email", email) filter is dropped.
update_credential_unfiltered(tbl, e, new_password) ==
  [i \in 1..Len(tbl) |-> [tbl[i] EXCEPT !.password = new_password]]

\* .update({"password": new_password}).eq("email", email).execute()
update_credential(tbl, e, new_password) ==
  [i \in 1..Len(tbl) |->
     IF tbl[i].email = e THEN [tbl[i] EXCEPT !.password = new_password]
                         ELSE tbl[i]]

\* Variant: the .eq("email", email) filter is dropped.
delete_credential_unfiltered(tbl, e) == SelectSeq(tbl, LAMBDA r : FALSE)

\* .delete().eq("email", email).execute()
delete_credential(tbl, e) == SelectSeq(tbl, LAMBDA r : r.email # e)

\* The table after the request of command cmd.
ResultTable(cmd, tbl, e, p) ==
  CASE cmd = "create" -> insert_credential(tbl, e, p)
    [] cmd = "update" -> update_credential(tbl, e, p)
    [] cmd = "delete" -> delete_credential(tbl, e)
    [] OTHER -> tbl

\* response.data of the request of command cmd: the listed rows for list,
\* the affected rows for the other three.
ResponseData(cmd, tbl, e, p) ==
  CASE cmd = "create" -> <<[email |-> e, password |-> p]>>
    [] cmd = "update" ->
         SelectSeq(update_credential(tbl, e, p), LAMBDA r : r.email = e)
    [] cmd = "delete" -> SelectSeq(tbl, LAMBDA r : r.email = e)
    [] OTHER -> fetch_credentials(tbl)

\* The backend call each command issues once it holds a session.
RequestOf(cmd) ==
  CASE cmd = "list" -> "select"
    [] cmd = "create" -> "insert"
    [] cmd = "update" -> "update"
    [] cmd = "delete" -> "delete"
    [] OTHER -> "subscribe"

Requests == {"select", "insert", "update", "delete", "subscribe",
             "remove_channel"}

\* ------------------------------------------------------ change-event input
EventTypes == {"INSERT", "UPDATE", "DELETE", "TRUNCATE"}

EventRow(i) == IF i = 1 THEN [email |-> "x", password |-> "y"]
                        ELSE [email |-> "x"]

DataDicts ==
  {Opt("type", t # "", t) @@ Opt("record", r # 0, EventRow(r))
                          @@ Opt("old_record", o # 0, EventRow(o)) :
     t \in EventTypes \cup {""}, r \in 0..1, o \in {0, 2}}

Payloads == {EmptyDict} \cup {[data |-> d] : d \in DataDicts}

NoReport == [event |-> "", label |-> "", row |-> EmptyDict]

\* Variant: the two branches read each other's snapshot.
handle_record_updated_swapped(pl) ==
  LET data == Get(pl, "data", EmptyDict)
      event_type == Get(data, "type", "unknown")
  IN IF event_type = "DELETE"
       THEN [event |-> event_type, label |-> "Record deleted:",
             row |-> Get(data, "record", EmptyDict)]
       ELSE [event |-> event_type, label |-> "Updated record:",
             row |-> Get(data, "old_record", EmptyDict)]

\* The callback: what it prints for a payload.
handle_record_updated(pl) ==
  LET data == Get(pl, "data", EmptyDict)
      event_type == Get(data, "type", "unknown")
  IN IF event_type = "DELETE"
       THEN [event |-> event_type, label |-> "Record deleted:",
             row |-> Get(data, "old_record", EmptyDict)]
       ELSE [event |-> event_type, label |-> "Updated record:",
             row |-> Get(data, "record", EmptyDict)]

\* ------------------------------------------------------- guards and handlers
\* Variant: `if url is None or key is None`.
ConfigMissing_NoneOnly(u, k) == u = None \/ k = None

\* `if not url or not key` of initialize_supabase.
ConfigMissing(u, k) == ~Truthy(u) \/ ~Truthy(k)

\* Variant: the check is missing.
NoSession_never(session) == FALSE

\* `if not supabase: return` of run_realtime and the four do_* commands.
NoSession(session) == ~Truthy(session)

\* Variant: the check is missing.
NoChannel_never(ch) == FALSE

\* `if not channel: return` of run_realtime.
NoChannel(ch) == ~Truthy(ch)

\* Variant: the handler names an exception class the backend never raises.
ExceptException_never(exc) == FALSE

\* `except Exception`: backend errors are Exceptions; KeyboardInterrupt
\* and asyncio's CancelledError derive from BaseException only.
ExceptException(exc) == exc = "Exception"

\* `except KeyboardInterrupt` around the idle loop.
ExceptKeyboardInterrupt(exc) == exc = "KeyboardInterrupt"

\* What an interrupt throws into the coroutine at its suspension point:
\* KeyboardInterrupt itself or the CancelledError of asyncio.run's
\* cancellation of the main task, depending on the interpreter.
InterruptExceptions == {"KeyboardInterrupt", "CancelledError"}

\* An exception leaves the coroutine: asyncio.run raises it out of main.
Crash(cs) == [pc |-> "shell", exit |-> "exception", calls |-> cs]

\* The coroutine returns; an exception kept through the finally block is
\* re-raised.
Finish(pend, cs) ==
  [pc |-> "shell", exit |-> IF pend THEN "exception" ELSE "ok", calls |-> cs]

\* The part of a command that follows `supabase = await
\* initialize_supabase()`, up to its next await.
Dispatch(cmd, session, cs) ==
  IF NoSession(session)
    THEN Finish(FALSE, cs)
    ELSE [pc |-> IF cmd = "realtime" THEN "subscribe" ELSE "execute",
          exit |-> "none", calls |-> Append(cs, RequestOf(cmd))]

\* The part of run_realtime that follows `channel = await
\* setup_realtime_subscription(supabase)`, up to the first sleep.
AfterSubscribe(ch, cs) ==
  IF NoChannel(ch) THEN Finish(FALSE, cs)
                   ELSE [pc |-> "sleep", exit |-> "none", calls |-> cs]

\* Variant: the try statement sits inside the loop, which goes on.
run_realtime_resume(ch, pend, cs) ==
  [pc |-> "sleep", exit |-> "none", calls |-> cs]

\* The finally block of run_realtime: `if channel: await
\* remove_realtime_subscription(supabase, channel)`.
run_realtime_finally(ch, pend, cs) ==
  IF Truthy(ch)
    THEN [pc |-> "unsubscribe", exit |-> "none",
          calls |-> Append(cs, "remove_channel")]
    ELSE Finish(pend, cs)

Goto(n) == pc' = n.pc /\ exit' = n.exit /\ calls' = n.calls

\* -------------------------------------------------------------------- Init
NoPrev == [command |-> "none", email |-> "", password |-> "", ok |-> FALSE,
           before |-> <<>>]

Init ==
  /\ table \in Tables
  /\ pc = "shell"
  /\ command = "none"
  /\ email = ""
  /\ password = ""
  /\ url \in EnvValues
  /\ key \in EnvValues
  /\ supabase = None
  /\ channel = None
  /\ calls = <<>>
  /\ interrupts = <<>>
  /\ pending = FALSE
  /\ exit = "none"
  /\ ok = FALSE
  /\ response = None
  /\ before = <<>>
  /\ prev = NoPrev
  /\ ticks = 0
  /\ payload = EmptyDict
  /\ reported = NoReport

\* ----------------------------------------------------------------- actions
\* The arguments argparse accepts for each command.
ArgEmails(cmd) == IF cmd \in {"create", "update", "delete"} THEN Emails
                                                            ELSE {""}

ArgPasswords(cmd) == IF cmd \in {"create", "update"} THEN Passwords ELSE {""}

\* main: a new process parses its arguments, reads the environment and runs
\* the command's coroutine up to the first await of initialize_supabase (or
\* to its return, when the configuration is missing).
main(cmd, e, p) ==
  /\ pc = "shell"
  /\ prev' = [command |-> command, email |-> email, password |-> password,
              ok |-> ok, before |-> before]
  /\ command' = cmd
  /\ email' = e
  /\ password' = p
  /\ before' = table
  /\ supabase' = None
  /\ channel' = None
  /\ interrupts' = <<>>
  /\ pending' = FALSE
  /\ ok' = FALSE
  /\ response' = None
  /\ ticks' = 0
  /\ payload' = EmptyDict
  /\ reported' = NoReport
  /\ IF ConfigMissing(url, key)
       THEN Goto(Dispatch(cmd, None, <<>>))
       ELSE Goto([pc |-> "connect", exit |-> "none",
                  calls |-> <<"create_async_client">>])
  /\ UNCHANGED <<table, url, key>>

\* create_async_client returns a client.
initialize_supabase_ok ==
  /\ pc = "connect"
  /\ supabase' = Some("client")
  /\ Goto(Dispatch(command, Some("client"), calls))
  /\ UNCHANGED <<table, command, email, password, url, key, channel,
                 interrupts, pending, ok, response, before, prev, ticks,
                 payload, reported>>

\* create_async_client raises.
initialize_supabase_fail ==
  /\ pc = "connect"
  /\ Goto(IF ExceptException("Exception")
            THEN Dispatch(command, None, calls)
            ELSE Crash(calls))
  /\ UNCHANGED <<table, command, email, password, url, key, supabase,
                 channel, interrupts, pending, ok, response, before, prev,
                 ticks, payload, reported>>

\* The request of list / create / update / delete is executed by the backend.
execute_ok ==
  /\ pc = "execute"
  /\ Truthy(supabase)
  /\ command = "create" => Len(table) < MaxRows
  /\ table' = ResultTable(command, table, email, password)
  /\ response' = Some(ResponseData(command, table, email, password))
  /\ ok' = TRUE
  /\ Goto(Finish(FALSE, calls))
  /\ UNCHANGED <<command, email, password, url, key, supabase, channel,
                 interrupts, pending, before, prev, ticks, payload, reported>>

\* The request raises (network error, rejected row, ...).
execute_fail ==
  /\ pc = "execute"
  /\ Goto(IF ExceptException("Exception") THEN Finish(FALSE, calls)
                                          ELSE Crash(calls))
  /\ UNCHANGED <<table, command, email, password, url, key, supabase,
                 channel, interrupts, pending, ok, response, before, prev,
                 ticks, payload, reported>>

\* subscribe() returns the channel; run_realtime enters the idle loop.
setup_realtime_subscription_ok ==
  /\ pc = "subscribe"
  /\ Truthy(supabase)
  /\ channel' = Some("credentials_channel")
  /\ ok' = TRUE
  /\ Goto(AfterSubscribe(Some("credentials_channel"), calls))
  /\ UNCHANGED <<table, command, email, password, url, key, supabase,
                 interrupts, pending, response, before, prev, ticks,
                 payload, reported>>

\* subscribe() raises.
setup_realtime_subscription_fail ==
  /\ pc = "subscribe"
  /\ Goto(IF ExceptException("Exception") THEN AfterSubscribe(None, calls)
                                          ELSE Crash(calls))
  /\ UNCHANGED <<table, command, email, password, url, key, supabase,
                 channel, interrupts, pending, ok, response, before, prev,
                 ticks, payload, reported>>

\* One `await asyncio.sleep(1)` of the idle loop completes.
sleep ==
  /\ pc = "sleep"
  /\ ticks < MaxTicks
  /\ ticks' = ticks + 1
  /\ UNCHANGED <<table, pc, command, email, password, url, key, supabase,
                 channel, calls, interrupts, pending, exit, ok, response,
                 before, prev, payload, reported>>

\* The backend delivers a change event to the registered callback.
callback(pl) ==
  /\ pc \in {"sleep", "unsubscribe"}
  /\ Truthy(channel)
  /\ payload' = pl
  /\ reported' = handle_record_updated(pl)
  /\ UNCHANGED <<table, pc, command, email, password, url, key, supabase,
                 channel, calls, interrupts, pending, exit, ok, response,
                 before, prev, ticks>>

\* An interrupt reaches the realtime process while it is suspended in one of
\* its awaits; exc is thrown into the coroutine there.
interrupt(exc) ==
  /\ command = "realtime"
  /\ pc \in {"connect", "subscribe", "sleep", "unsubscribe"}
  /\ Len(interrupts) < MaxInterrupts
  /\ interrupts' = Append(interrupts, pc)
  /\ CASE pc = "connect" ->
            /\ Goto(IF ExceptException(exc)
                      THEN Dispatch(command, None, calls)
                      ELSE Crash(calls))
            /\ UNCHANGED <<pending, ok>>
       [] pc = "subscribe" ->
            /\ Goto(IF ExceptException(exc) THEN AfterSubscribe(None, calls)
                                            ELSE Crash(calls))
            /\ UNCHANGED <<pending, ok>>
       [] pc = "sleep" ->
            /\ pending' = ~ExceptKeyboardInterrupt(exc)
            /\ ok' = FALSE
            /\ Goto(run_realtime_finally(channel,
                                         ~ExceptKeyboardInterrupt(exc), calls))
       [] pc = "unsubscribe" ->
            /\ Goto(IF ExceptException(exc) THEN Finish(pending, calls)
                                            ELSE Crash(calls))
            /\ UNCHANGED <<pending, ok>>
  /\ UNCHANGED <<table, command, email, password, url, key, supabase,
                 channel, response, before, prev, ticks, payload, reported>>

\* remove_channel returns.
remove_realtime_subscription_ok ==
  /\ pc = "unsubscribe"
  /\ ok' = TRUE
  /\ Goto(Finish(pending, calls))
  /\ UNCHANGED <<table, command, email, password, url, key, supabase,
                 channel, interrupts, pending, response, before, prev,
                 ticks, payload, reported>>

\* remove_channel raises.
remove_realtime_subscription_fail ==
  /\ pc = "unsubscribe"
  /\ Goto(IF ExceptException("Exception") THEN Finish(pending, calls)
                                          ELSE Crash(calls))
  /\ UNCHANGED <<table, command, email, password, url, key, supabase,
                 channel, interrupts, pending, ok, response, before, prev,
                 ticks, payload, reported>>

Next ==
  \/ \E cmd \in Commands :
       \E e \in ArgEmails(cmd), p \in ArgPasswords(cmd) : main(cmd, e, p)
  \/ initialize_supabase_ok
  \/ initialize_supabase_fail
  \/ execute_ok
  \/ execute_fail
  \/ setup_realtime_subscription_ok
  \/ setup_realtime_subscription_fail
  \/ sleep
  \/ \E pl \in Payloads : callback(pl)
  \/ \E exc \in InterruptExceptions : interrupt(exc)
  \/ remove_realtime_subscription_ok
  \/ remove_realtime_subscription_fail

Spec == Init /\ [][Next]_vars

\* The awaited remove_channel call completes or fails: the unsubscribe in
\* flight is eventually answered.
LiveSpec ==
  Spec /\ WF_vars(remove_realtime_subscription_ok
                    \/ remove_realtime_subscription_fail)

\* ------------------------------------------------------------- properties
\* The rows printed by a successful list command.
Listing == response[1]

Matches(tbl, e) == Cardinality({i \in 1..Len(tbl) : tbl[i].email = e})

\* A successful list command that ran right after a successful cmd command.
ThenList(cmd) ==
  /\ pc = "shell"
  /\ command = "list"
  /\ ok
  /\ prev.command = cmd
  /\ prev.ok

\* The listener's state, by the await run_realtime is suspended in.
ListenerState(p) ==
  CASE p = "subscribe" -> "SUBSCRIBING"
    [] p = "sleep" -> "LISTENING"
    [] p = "unsubscribe" -> "UNSUBSCRIBING"
    [] OTHER -> "DISCONNECTED"

\* C1: a realtime process that was interrupted, at whatever await, has made
\* exactly one unsubscribe attempt by the time it has exited.
C1_ExactlyOneUnsubscribe ==
  (pc = "shell" /\ command = "realtime" /\ interrupts # <<>>)
    => Count("remove_channel", calls) = 1

\* C2: when the URL or the key is unset or empty, bootstrap returns None and
\* the process makes no backend call at all, the handshake included.
C2_NoHandshakeWithoutConfig ==
  (url \in {None, Some("")} \/ key \in {None, Some("")})
    => /\ supabase = None
       /\ calls = <<>>
       /\ pc = "shell"

C2_Witness ==
  /\ command = "list"
  /\ url = Some("")
  /\ key = Some("set")
  /\ exit = "ok"

\* C3: the callback reports old_record for a DELETE event and record for an
\* INSERT or UPDATE event (an empty row when the key is not in the event).
C3_ReportedSnapshot ==
  reported # NoReport =>
    LET d == IF "data" \in DOMAIN payload THEN payload.data ELSE EmptyDict
        t == IF "type" \in DOMAIN d THEN d.type ELSE ""
        new == IF "record" \in DOMAIN d THEN d.record ELSE EmptyDict
        old == IF "old_record" \in DOMAIN d THEN d.old_record ELSE EmptyDict
    IN /\ t = "DELETE" => reported.row = old
       /\ t \in {"INSERT", "UPDATE"} => reported.row = new

C3_Witness ==
  /\ "data" \in DOMAIN payload
  /\ DOMAIN payload.data = {"type", "record", "old_record"}
  /\ payload.data.type = "DELETE"
  /\ payload.data.record # payload.data.old_record
  /\ reported.row = payload.data.old_record

\* C4 as stated: after delete(e) then list, no listed row has email e and the
\* listing has exactly one row less than the table had before the delete.
C4_CountDropsByOne ==
  ThenList("delete") =>
    /\ \A i \in 1..Len(Listing) : Listing[i].email # prev.email
    /\ Len(Listing) = Len(prev.before) - 1

\* C4 amended: after delete(e) then list, no listed row has email e and the
\* listing is shorter than the table was by the number of rows that had
\* email e.
C4_CountDropsByMatches ==
  ThenList("delete") =>
    /\ \A i \in 1..Len(Listing) : Listing[i].email # prev.email
    /\ Len(Listing) = Len(prev.before) - Matches(prev.before, prev.email)

C4_Witness ==
  /\ ThenList("delete")
  /\ Matches(prev.before, prev.email) = 1
  /\ Len(prev.before) = 2
  /\ Len(Listing) = 1

\* C5: after update(e, q) then list, every listed row with email e has
\* password q, the row count is what it was, and the rows with another
\* email are as they were.
C5_UpdateFrame ==
  ThenList("update") =>
    /\ Len(Listing) = Len(prev.before)
    /\ \A i \in 1..Len(Listing) :
         Listing[i].email = prev.email => Listing[i].password = prev.password
    /\ \A i \in 1..Len(prev.before) :
         prev.before[i].email # prev.email => Listing[i] = prev.before[i]

C5_Witness ==
  /\ ThenList("update")
  /\ \E i \in 1..Len(prev.before) :
       /\ prev.before[i].email = prev.email
       /\ prev.before[i].password # prev.password
  /\ \E j \in 1..Len(prev.before) :
       /\ prev.before[j].email # prev.email
       /\ prev.before[j].password # prev.password

\* C6: after create(e, p) then list, some listed row has email e.
C6_CreatedRowListed ==
  ThenList("create") => \E i \in 1..Len(Listing) : Listing[i].email = prev.email

C6_Witness ==
  /\ ThenList("create")
  /\ Matches(prev.before, prev.email) = 0
  /\ Len(prev.before) = 1

\* C7: a list, create, update or delete process never ends with a propagated
\* exception: once it has exited, its status is success, also when the
\* handshake or the request failed.
C7_CrudExitsWithSuccess ==
  command \in CrudCommands => exit = IF pc = "shell" THEN "ok" ELSE "none"

C7_Witness ==
  /\ command = "create"
  /\ pc = "shell"
  /\ calls = <<"create_async_client", "insert">>
  /\ ~ok

\* C8: the listener changes state only along DISCONNECTED -> SUBSCRIBING ->
\* LISTENING -> UNSUBSCRIBING -> DISCONNECTED or SUBSCRIBING -> DISCONNECTED;
\* it subscribes only with a session, listens only with a channel, makes no
\* further call when it leaves SUBSCRIBING for DISCONNECTED, and leaves
\* LISTENING only on an interrupt.
C8_ListenerTransitions ==
  [][LET from == ListenerState(pc)
         to == ListenerState(pc')
     IN /\ from # to =>
             <<from, to>> \in {<<"DISCONNECTED", "SUBSCRIBING">>,
                               <<"SUBSCRIBING", "LISTENING">>,
                               <<"SUBSCRIBING", "DISCONNECTED">>,
                               <<"LISTENING", "UNSUBSCRIBING">>,
                               <<"UNSUBSCRIBING", "DISCONNECTED">>}
        /\ to = "SUBSCRIBING" => Truthy(supabase')
        /\ to = "LISTENING" => Truthy(channel')
        /\ (from = "SUBSCRIBING" /\ to = "DISCONNECTED") => calls' = calls
        /\ (from = "LISTENING" /\ to # "LISTENING") =>
             Len(interrupts') = Len(interrupts) + 1]_vars

C8_Witness ==
  /\ command = "realtime"
  /\ pc = "shell"
  /\ calls = <<"create_async_client", "subscribe", "remove_channel">>
  /\ ok

\* C9: no select, insert, update, delete, subscribe or unsubscribe call is
\* made without a session, and a process whose bootstrap gave None is over.
C9_NoRequestWithoutSession ==
  /\ \A i \in 1..Len(calls) : calls[i] \in Requests => Truthy(supabase)
  /\ (supabase = None /\ pc # "connect") => pc = "shell"

C9_Witness ==
  /\ command = "delete"
  /\ pc = "shell"
  /\ calls = <<"create_async_client">>
  /\ supabase = None
  /\ exit = "ok"

\* C10: a listener interrupted in its idle loop eventually exits, whether the
\* unsubscribe succeeds or fails, and never makes a second unsubscribe call.
C10_InterruptedListenerExits ==
  /\ [](Count("remove_channel", calls) <= 1)
  /\ (command = "realtime" /\ \E i \in 1..Len(interrupts) :
                                 interrupts[i] = "sleep")
       ~> (pc = "shell")

C10_Witness ==
  /\ command = "realtime"
  /\ pc = "shell"
  /\ interrupts = <<"sleep">>
  /\ Count("remove_channel", calls) = 1
  /\ ~ok

====
